---------------------------- MODULE Spec2Model ----------------------------
(***************************************************************************)
(* A model of the ImgCast plugin of src/main.ts: the resolution of a       *)
(* displayed image URL to a vault file (getTFileFormHref), the upload of   *)
(* a file (sendToImgCast), the three entry points that start an upload     *)
(* (right-click on an inline image, the file explorer's menu, the command  *)
(* picker) and the settings form.                                          *)
(*                                                                         *)
(* Strings are sequences of one-character strings, so that startsWith,     *)
(* substring, URL parsing, decodeURI, path.resolve and normalizePath are   *)
(* computed character by character, as the code computes them.  Paths      *)
(* follow the POSIX flavour of Node's path module.                         *)
(***************************************************************************)
EXTENDS Integers, Sequences, FiniteSets, TLC

(***************************************************************************)
(* Bounds of the model.                                                    *)
(***************************************************************************)
\* Calls of sendToImgCast in one run.
MaxUploads == 1
\* Path segments of a displayed image URL.
MaxDepth == 3

(***************************************************************************)
(* String literals.                                                        *)
(***************************************************************************)
EmptyString == << >>
Slash == <<"/">>
S_vault == <<"v","a","u","l","t">>
S_vault2 == <<"v","a","u","l","t","2">>
S_sub == <<"s","u","b">>
S_home == <<"h","o","m","e">>
S_img_png == <<"i","m","g",".","p","n","g">>
S_my_img_png_enc == <<"m","y","%","2","0","i","m","g",".","p","n","g">>
S_my_img_png == <<"m","y"," ","i","m","g",".","p","n","g">>
S_50pct_png == <<"5","0","%",".","p","n","g">>
S_notes_md == <<"n","o","t","e","s",".","m","d">>
S_dotdot == <<".",".">>
S_png == <<"p","n","g">>
S_md == <<"m","d">>
S_file_scheme == <<"f","i","l","e",":","/","/">>
S_app_scheme == <<"a","p","p",":","/","/","l","o","c","a","l">>
S_query == <<"?","1">>
S_secret == <<"s","e","c","r","e","t">>
S_key2 == <<"k","e","y","2">>
S_imgcast == <<"i","m","g","c","a","s","t">>
S_default_url == <<"h","t","t","p",":","/","/","1","2","7",".","0",".","0",".","1",":","8","0","8","0","/","u","p","l","o","a","d">>
S_https_url == <<"h","t","t","p","s",":","/","/","c","a","s","t","/","u","p">>
S_http_colon == <<"h","t","t","p",":">>
S_https_colon == <<"h","t","t","p","s",":">>

(***************************************************************************)
(* JavaScript string primitives.                                           *)
(***************************************************************************)
\* String.prototype.startsWith
StartsWith(s, p) == Len(p) <= Len(s) /\ SubSeq(s, 1, Len(p)) = p

\* String.prototype.substring(start): start is a 0-based index.
Substring(s, start) == IF start >= Len(s) THEN EmptyString ELSE SubSeq(s, start + 1, Len(s))

\* The 1-based position of the first character of s that lies in cs; 0 when none.
FirstOf(s, cs) ==
  LET hits == {i \in 1..Len(s) : s[i] \in cs}
  IN IF hits = {} THEN 0 ELSE CHOOSE i \in hits : \A j \in hits : i <= j

\* The 1-based position of the last character of s that lies in cs; 0 when none.
LastOf(s, cs) ==
  LET hits == {i \in 1..Len(s) : s[i] \in cs}
  IN IF hits = {} THEN 0 ELSE CHOOSE i \in hits : \A j \in hits : i >= j

\* String.prototype.split("/")
RECURSIVE SplitSlash(_)
SplitSlash(s) ==
  LET i == FirstOf(s, {"/"})
  IN IF i = 0 THEN <<s>>
     ELSE <<SubSeq(s, 1, i - 1)>> \o SplitSlash(SubSeq(s, i + 1, Len(s)))

\* Array.prototype.join("/")
RECURSIVE JoinSlash(_)
JoinSlash(segs) ==
  IF Len(segs) = 0 THEN EmptyString
  ELSE IF Len(segs) = 1 THEN segs[1]
  ELSE segs[1] \o Slash \o JoinSlash(Tail(segs))


(***************************************************************************)
(* Values that are not strings.                                            *)
(***************************************************************************)
\* JavaScript's null: no file, no path looked up, no MIME type.
Null == <<"null">>

(***************************************************************************)
(* new URL(href), without a base URL (WHATWG URL parsing), for the two     *)
(* forms the plugin meets: a string with no scheme, which is rejected, and *)
(* scheme://authority/path?query#fragment.                                 *)
(***************************************************************************)
Letters == {"a","b","c","d","e","f","g","h","i","j","k","l","m",
            "n","o","p","q","r","s","t","u","v","w","x","y","z"}
Digits == {"0","1","2","3","4","5","6","7","8","9"}

\* A scheme starts with a letter and holds letters, digits, "+", "-" and ".".
IsScheme(s) ==
  /\ Len(s) > 0
  /\ s[1] \in Letters
  /\ \A i \in 1..Len(s) : s[i] \in Letters \cup Digits \cup {"+", "-", "."}

\* The path state: "." and ".." segments are resolved while parsing.
RECURSIVE UrlSegments(_, _)
UrlSegments(segs, acc) ==
  IF Len(segs) = 0 THEN acc
  ELSE LET s == Head(segs)
           last == Len(segs) = 1
           dir == IF last THEN <<EmptyString>> ELSE << >>
       IN IF s = S_dotdot
            THEN UrlSegments(Tail(segs),
                   (IF Len(acc) > 0 THEN SubSeq(acc, 1, Len(acc) - 1) ELSE acc) \o dir)
          ELSE IF s = <<".">>
            THEN UrlSegments(Tail(segs), acc \o dir)
          ELSE UrlSegments(Tail(segs), acc \o <<s>>)

\* The path percent-encode set, as far as the model's inputs go: a space.
RECURSIVE UrlEncodePath(_)
UrlEncodePath(s) ==
  IF Len(s) = 0 THEN EmptyString
  ELSE (IF Head(s) = " " THEN <<"%","2","0">> ELSE <<Head(s)>>) \o UrlEncodePath(Tail(s))

InvalidURL == [ok |-> FALSE, protocol |-> EmptyString, hostname |-> EmptyString,
               port |-> EmptyString, pathname |-> EmptyString]

\* new URL(href): ok = FALSE stands for the TypeError the constructor throws.
URL(href) ==
  LET c == FirstOf(href, {":"})
      scheme == SubSeq(href, 1, c - 1)
      rest == Substring(href, c)
      special == scheme \in {<<"h","t","t","p">>, <<"h","t","t","p","s">>, <<"f","i","l","e">>}
      afterSlashes == Substring(rest, 2)
      e == FirstOf(afterSlashes, {"/", "?", "#"})
      authority == IF e = 0 THEN afterSlashes ELSE SubSeq(afterSlashes, 1, e - 1)
      fromPath == IF e = 0 THEN EmptyString ELSE Substring(afterSlashes, e - 1)
      q == FirstOf(fromPath, {"?", "#"})
      rawPath == IF q = 0 THEN fromPath ELSE SubSeq(fromPath, 1, q - 1)
      colon == LastOf(authority, {":"})
      hostname == IF colon = 0 THEN authority ELSE SubSeq(authority, 1, colon - 1)
      port == IF colon = 0 THEN EmptyString ELSE Substring(authority, colon)
      segs == UrlSegments(SplitSlash(Substring(rawPath, 1)), << >>)
      pathname == IF Len(rawPath) = 0
                    THEN (IF special THEN Slash ELSE EmptyString)
                    ELSE UrlEncodePath(Slash \o JoinSlash(segs))
  IN IF c <= 1 \/ ~IsScheme(scheme) \/ ~StartsWith(rest, <<"/","/">>) THEN InvalidURL
     ELSE IF special /\ scheme # <<"f","i","l","e">> /\ Len(hostname) = 0 THEN InvalidURL
     ELSE [ok |-> TRUE, protocol |-> scheme \o <<":">>, hostname |-> hostname,
           port |-> port, pathname |-> pathname]

(***************************************************************************)
(* decodeURI: every escape is decoded, except the escapes of the reserved  *)
(* characters, which are left as they are; a "%" that starts no escape     *)
(* makes decodeURI throw a URIError.                                       *)
(***************************************************************************)
HexDigits == Digits \cup {"a","b","c","d","e","f","A","B","C","D","E","F"}

\* The escapes of reserved characters ("#", "/", "?"), which decodeURI keeps.
ReservedEscapes == {<<"2","3">>, <<"2","F">>, <<"2","f">>, <<"3","F">>, <<"3","f">>}

\* The character of an escape, for the escapes of the model's inputs.
Unescape(pair) ==
  CASE pair = <<"2","0">> -> " "
    [] pair = <<"2","5">> -> "%"

\* Whether decodeURI throws on s.
MalformedURI(s) ==
  \E i \in 1..Len(s) :
    /\ s[i] = "%"
    /\ ~(i + 2 <= Len(s) /\ s[i + 1] \in HexDigits /\ s[i + 2] \in HexDigits)

RECURSIVE decodeURI(_)
decodeURI(s) ==
  IF Len(s) = 0 THEN EmptyString
  ELSE IF Head(s) # "%" THEN <<Head(s)>> \o decodeURI(Tail(s))
  ELSE IF SubSeq(s, 2, 3) \in ReservedEscapes THEN SubSeq(s, 1, 3) \o decodeURI(Substring(s, 3))
  ELSE <<Unescape(SubSeq(s, 2, 3))>> \o decodeURI(Substring(s, 3))

(***************************************************************************)
(* path.resolve(p) and path.basename(p) of Node (POSIX), and normalizePath *)
(* of the host.                                                            *)
(***************************************************************************)
\* normalizeString: "" and "." segments dropped, ".." pops a segment.
RECURSIVE NormalizeSegments(_, _)
NormalizeSegments(segs, acc) ==
  IF Len(segs) = 0 THEN acc
  ELSE LET s == Head(segs)
       IN IF s = EmptyString \/ s = <<".">> THEN NormalizeSegments(Tail(segs), acc)
          ELSE IF s = S_dotdot
            THEN NormalizeSegments(Tail(segs),
                   IF Len(acc) > 0 THEN SubSeq(acc, 1, Len(acc) - 1) ELSE acc)
          ELSE NormalizeSegments(Tail(segs), acc \o <<s>>)

\* path.resolve(p) in a process whose working directory is dir.
resolve(p, dir) ==
  LET full == IF StartsWith(p, Slash) THEN p
              ELSE IF Len(p) = 0 THEN dir
              ELSE dir \o Slash \o p
  IN Slash \o JoinSlash(NormalizeSegments(SplitSlash(full), << >>))

\* path.basename(p)
basename(p) ==
  LET segs == NormalizeSegments(SplitSlash(p), << >>)
  IN IF Len(segs) = 0 THEN EmptyString ELSE segs[Len(segs)]

\* Backslashes count as separators in normalizePath.
RECURSIVE ForwardSlashes(_)
ForwardSlashes(s) ==
  IF Len(s) = 0 THEN EmptyString
  ELSE (IF Head(s) = "\\" THEN Slash ELSE <<Head(s)>>) \o ForwardSlashes(Tail(s))

\* Runs of separators become one "/", leading and trailing ones are removed,
\* and the empty path becomes "/".
normalizePath(p) ==
  LET segs == SelectSeq(SplitSlash(ForwardSlashes(p)), LAMBDA s : s # EmptyString)
  IN IF Len(segs) = 0 THEN Slash ELSE JoinSlash(segs)


(***************************************************************************)
(* The state.                                                              *)
(***************************************************************************)
VARIABLES
  settings,      \* this.settings: [baseURL, apiKey]
  data,          \* the persisted settings (loadData / saveData)
  adapterIsFS,   \* this.app.vault.adapter instanceof FileSystemAdapter
  basePath,      \* adapter.getBasePath()
  cwd,           \* the working directory of the process (read by path.resolve)
  vault,         \* the paths of the vault's files (TFile)
  menu,          \* the context menu on screen and its "Send to ImgCast" item
  modal,         \* the Suggester of the send-to-imgcast command
  uploads,       \* the calls of sendToImgCast, by order of call
  uncaught,      \* the handlers that ended by an uncaught exception or rejection
  pathNotice,    \* whether the "Unable to resolve image path" notice was shown
  resolved       \* the last call of getTFileFormHref and what it did

vars == <<settings, data, adapterIsFS, basePath, cwd, vault, menu, modal, uploads,
          uncaught, pathNotice, resolved>>

\* What the plugin never writes.
host == <<adapterIsFS, basePath, cwd, vault>>

(***************************************************************************)
(* Settings.                                                               *)
(***************************************************************************)
DEFAULT_SETTINGS == [baseURL |-> S_default_url, apiKey |-> S_secret]

\* What the user types in the two text fields.
BaseURLs == {EmptyString, S_imgcast, S_default_url, S_https_url}
ApiKeys == {S_secret, S_key2}

\* What loadData() may return: nothing saved yet, or what an earlier run saved.
NoData == << >>
PersistedData == {NoData} \cup [baseURL : BaseURLs, apiKey : {S_secret}]

\* Object.assign({}, DEFAULT_SETTINGS, await this.loadData())
loadSettings(saved) ==
  [k \in DOMAIN DEFAULT_SETTINGS |-> IF k \in DOMAIN saved THEN saved[k] ELSE DEFAULT_SETTINGS[k]]

(***************************************************************************)
(* Files and MIME types.                                                   *)
(***************************************************************************)
S_image_png == <<"i","m","a","g","e","/","p","n","g">>
S_text_markdown == <<"t","e","x","t","/","m","a","r","k","d","o","w","n">>
S_image == <<"i","m","a","g","e">>
S_octet_stream == <<"a","p","p","l","i","c","a","t","i","o","n","/","o","c","t","e","t","-","s","t","r","e","a","m">>

\* TFile.extension: what follows the last "." of the file's name.
extension(path) ==
  LET name == basename(path)
      dot == LastOf(name, {"."})
  IN IF dot = 0 THEN EmptyString ELSE Substring(name, dot)

\* mime.getType(extension), for the extensions of the model's files.
getType(ext) ==
  IF ext = S_png THEN S_image_png
  ELSE IF ext = S_md THEN S_text_markdown
  ELSE Null

\* /image/.test(s)
TestImage(s) ==
  \E i \in 1..Len(s) : i + Len(S_image) - 1 <= Len(s) /\ SubSeq(s, i, i + Len(S_image) - 1) = S_image

\* mimeType !== null && /image/.test(mimeType)
IsImageFile(path) ==
  LET mimeType == getType(extension(path))
  IN mimeType # Null /\ TestImage(mimeType)

\* vault.getFileByPath(path), for a vault that holds the given files.
getFileByPath(files, path) == IF path \in files THEN path ELSE Null

(***************************************************************************)
(* getTFileFormHref.                                                       *)
(***************************************************************************)
\* filePath.startsWith(basePath)
StartsWithBasePath(filePath, base) == StartsWith(filePath, base)

\* filePath.substring(basePath.length + 1)
RemoveBasePath(filePath, base) == Substring(filePath, Len(base) + 1)

\* What one call does: the exception it throws ("none" when it returns), whether
\* it shows the FileSystemAdapter notice, whether it removed the base path, the
\* path it looks up in the vault (Null when it looks nothing up) and the file it
\* returns (Null for null).
\* It reads the host h: [adapterIsFS, basePath, cwd, vault].
getTFileFormHrefIn(h, href) ==
  LET url == URL(href)
      raw == Substring(url.pathname, 1)
      filePath == resolve(decodeURI(raw), h.cwd)
      strip == StartsWithBasePath(filePath, h.basePath)
      relative == IF strip THEN RemoveBasePath(filePath, h.basePath) ELSE filePath
      path == normalizePath(relative)
      nothing == [threw |-> "none", notice |-> FALSE, stripped |-> FALSE,
                  lookup |-> Null, file |-> Null]
  IN IF ~url.ok THEN [nothing EXCEPT !.threw = "TypeError"]
     ELSE IF MalformedURI(raw) THEN [nothing EXCEPT !.threw = "URIError"]
     ELSE IF ~h.adapterIsFS THEN [nothing EXCEPT !.notice = TRUE]
     ELSE [nothing EXCEPT !.stripped = strip, !.lookup = path,
                          !.file = getFileByPath(h.vault, path)]

\* The host the plugin runs in.
Host == [adapterIsFS |-> adapterIsFS, basePath |-> basePath, cwd |-> cwd, vault |-> vault]

getTFileFormHref(href) == getTFileFormHrefIn(Host, href)

NotResolved == [done |-> FALSE, href |-> Null, threw |-> "none", notice |-> FALSE,
                stripped |-> FALSE, lookup |-> Null, file |-> Null]

\* The record of a call of getTFileFormHref(href).
Resolution(href) ==
  LET r == getTFileFormHref(href)
  IN [done |-> TRUE, href |-> href, threw |-> r.threw, notice |-> r.notice,
      stripped |-> r.stripped, lookup |-> r.lookup, file |-> r.file]



(***************************************************************************)
(* The hosts and the displayed images the path resolver is run on.         *)
(***************************************************************************)
P_vault == Slash \o S_vault
P_vault_sub == Slash \o S_vault \o Slash \o S_sub
P_home == Slash \o S_home
F_sub_img == S_sub \o Slash \o S_img_png

BasePaths == {P_vault, P_vault_sub}
WorkingDirs == {Slash, P_home}
ResolverVault == {S_img_png, F_sub_img, S_my_img_png, S_notes_md}

\* The segments of the displayed paths: names, an escaped space, a stray "%",
\* "..", and the empty segment of "//" and of a trailing "/".
Segments == {S_vault, S_vault2, S_sub, S_img_png, S_my_img_png_enc, S_50pct_png,
             S_dotdot, EmptyString}
SegmentSeqs == UNION {[1..n -> Segments] : n \in 1..MaxDepth}

\* currentSrc of an image: empty when it has no source, else file:///<path> or
\* app://local/<path>?<mtime>.
Hrefs ==
  {EmptyString}
    \cup {S_file_scheme \o Slash \o JoinSlash(p) : p \in SegmentSeqs}
    \cup {S_app_scheme \o Slash \o JoinSlash(p) \o S_query : p \in SegmentSeqs}

(***************************************************************************)
(* sendToImgCast.                                                          *)
(***************************************************************************)
MissingNotice == "ImgCast: Base URL is not set in settings."
SuccessNotice == "ImgCast: Image sent successfully!"
ErrorNotice(statusCode) == "ImgCast: Error - " \o ToString(statusCode)
FailedNotice(message) == "ImgCast: Request failed - " \o message

\* The status codes a server answers with, and the messages of transport errors.
StatusCodes == {200, 201, 500}
ConnectErrors == {"connect ECONNREFUSED 127.0.0.1:8080"}
SocketErrors == {"read ECONNRESET"}

NoRequest == [transport |-> "none", method |-> "none", path |-> Null, hostname |-> Null,
              port |-> Null, apiKey |-> Null, fileName |-> Null, type |-> Null, body |-> Null]

\* A call that has not been made yet.
\* pc: idle, returned (the early return), rejected (the promise is rejected),
\* reading (suspended on readBinary), sent (the request is issued and the call
\* has returned), responded (the response callback has run), failed (the
\* 'error' listener has run and no response came).
\* configured: the API keys this.settings has held, from the call to the
\* request, while its base URL was the one the call read.
Idle == [pc |-> "idle", via |-> "none", file |-> Null, baseURL |-> Null, reads |-> 0,
         reqs |-> 0, request |-> NoRequest, statusCode |-> 0, err |-> "", notices |-> << >>,
         configured |-> {}]

\* A variant of the check below that lets an empty base URL through.
BaseURLNotSet_Skipped(baseURL) == FALSE

\* !this.settings.baseURL
BaseURLNotSet(baseURL) == Len(baseURL) = 0

\* The call up to its await: the check of the base URL, new URL(...), the file
\* name, and the start of readBinary.  Both new URL and decodeURI may throw,
\* which rejects the promise sendToImgCast returns.
sendToImgCast(file, via) ==
  LET called == [Idle EXCEPT !.via = via, !.file = file, !.baseURL = settings.baseURL,
                             !.configured = {settings.apiKey}]
  IN IF BaseURLNotSet(settings.baseURL)
       THEN [called EXCEPT !.pc = "returned", !.notices = <<MissingNotice>>]
     ELSE IF ~URL(settings.baseURL).ok \/ MalformedURI(file)
       THEN [called EXCEPT !.pc = "rejected"]
     ELSE [called EXCEPT !.pc = "reading", !.reads = 1]

\* The request built once the file is read: the transport and the target come
\* from the URL parsed before the await, the API key from this.settings now.
BuildRequest(up) ==
  LET baseURL == URL(up.baseURL)
      mimeType == getType(extension(up.file))
  IN [transport |-> IF baseURL.protocol = S_https_colon THEN "https" ELSE "http",
      method |-> "POST",
      path |-> baseURL.pathname,
      hostname |-> baseURL.hostname,
      port |-> baseURL.port,
      apiKey |-> settings.apiKey,
      fileName |-> basename(decodeURI(up.file)),
      type |-> IF mimeType # Null THEN mimeType ELSE S_octet_stream,
      body |-> up.file]

\* The call after readBinary resolved: the request is issued and the form piped.
AfterRead(up) ==
  [up EXCEPT !.pc = "sent", !.reqs = up.reqs + 1, !.request = BuildRequest(up)]

\* A variant of the callback below that takes every status under 400 for a success.
ResponseNotices_Below400(statusCode) ==
  IF statusCode >= 400 THEN <<ErrorNotice(statusCode)>> ELSE <<SuccessNotice>>

\* The notices of the response callback.
ResponseNotices(statusCode) ==
  IF statusCode # 200 THEN <<ErrorNotice(statusCode)>> ELSE <<SuccessNotice>>

\* The response callback.
OnResponse(up, statusCode) ==
  [up EXCEPT !.pc = "responded", !.statusCode = statusCode,
             !.notices = up.notices \o ResponseNotices(statusCode)]

\* A variant of the listener below that issues the request again.
OnError_Retry(up, message) ==
  [up EXCEPT !.err = message,
             !.reqs = up.reqs + 1,
             !.notices = Append(up.notices, FailedNotice(message))]

\* The 'error' listener of the request.
OnError(up, message) ==
  [up EXCEPT !.pc = IF up.pc = "sent" THEN "failed" ELSE up.pc,
             !.err = message,
             !.notices = Append(up.notices, FailedNotice(message))]

(***************************************************************************)
(* The entry points.                                                       *)
(***************************************************************************)
NoMenu == [kind |-> "none", on |-> Null, item |-> Null]
ClosedModal == [open |-> FALSE, files |-> {}]

\* The calls made so far take the first slots.
Called == {u \in 1..MaxUploads : uploads[u].pc # "idle"}

\* this.sendToImgCast(file), from a handler that neither awaits nor catches it.
Send(file, via) ==
  /\ Cardinality(Called) < MaxUploads
  /\ LET u == Cardinality(Called) + 1
         up == sendToImgCast(file, via)
     IN /\ uploads' = [uploads EXCEPT ![u] = up]
        /\ uncaught' = IF up.pc = "rejected" THEN uncaught \cup {"sendToImgCast"} ELSE uncaught

\* The vault of the plugin's run and the images its notes display: one with no
\* source, one of the vault, one of a sibling directory of the vault.
PluginVault == {F_sub_img, S_notes_md}
DisplayedImages ==
  { EmptyString,
    S_file_scheme \o P_vault \o Slash \o F_sub_img,
    S_app_scheme \o Slash \o S_vault2 \o Slash \o S_img_png \o S_query }

\* getTFileFormHref(href) for the displayed images, in the hosts of the plugin's
\* run: the calls the "contextmenu" listener makes, computed once.
PluginHosts ==
  {[adapterIsFS |-> b, basePath |-> P_vault, cwd |-> Slash, vault |-> PluginVault] : b \in BOOLEAN}
Displayed == [h \in PluginHosts, href \in DisplayedImages |-> getTFileFormHrefIn(h, href)]

\* The "contextmenu" listener of the document.
ContextMenu(localName, href) ==
  LET r == Displayed[Host, href]
  IN /\ IF localName # "img" THEN UNCHANGED <<menu, uncaught, pathNotice>>
        ELSE IF r.threw # "none"
          THEN uncaught' = uncaught \cup {"contextmenu"} /\ UNCHANGED <<menu, pathNotice>>
        ELSE IF r.file = Null
          THEN pathNotice' = (pathNotice \/ r.notice) /\ UNCHANGED <<menu, uncaught>>
        ELSE /\ menu' = [kind |-> "contextmenu", on |-> r.file, item |-> r.file]
             /\ UNCHANGED <<uncaught, pathNotice>>
     /\ UNCHANGED <<settings, data, host, modal, uploads, resolved>>

\* The item the "file-menu" listener adds for a file of the explorer (Null: none).
FileMenuItem(file) ==
  IF ~adapterIsFS THEN Null
  ELSE IF file \notin vault THEN Null
  ELSE IF ~IsImageFile(file) THEN Null
  ELSE file

\* The "file-menu" listener of the workspace: the host opens the menu of a file
\* or a folder of the explorer.
FileMenu(file) ==
  /\ menu' = [kind |-> "file-menu", on |-> file, item |-> FileMenuItem(file)]
  /\ UNCHANGED <<settings, data, host, modal, uploads, uncaught, pathNotice, resolved>>

\* The onClick of the "Send to ImgCast" item.
MenuClick ==
  /\ menu.item # Null
  /\ Send(menu.item, menu.kind)
  /\ menu' = NoMenu
  /\ UNCHANGED <<settings, data, host, modal, pathNotice, resolved>>

\* The menu is closed without a click on the item.
MenuClose ==
  /\ menu # NoMenu
  /\ menu' = NoMenu
  /\ UNCHANGED <<settings, data, host, modal, uploads, uncaught, pathNotice, resolved>>

\* The callback of the send-to-imgcast command: the picker lists the image files.
Command ==
  /\ ~modal.open
  /\ modal' = [open |-> TRUE, files |-> {f \in vault : IsImageFile(f)}]
  /\ UNCHANGED <<settings, data, host, menu, uploads, uncaught, pathNotice, resolved>>

\* onChooseItem, then the onClose it triggers, with modal.file set.
ChooseItem(item) ==
  /\ modal.open
  /\ item \in modal.files
  /\ Send(item, "command")
  /\ modal' = ClosedModal
  /\ UNCHANGED <<settings, data, host, menu, pathNotice, resolved>>

\* onClose with no file chosen.
CloseModal ==
  /\ modal.open
  /\ modal' = ClosedModal
  /\ UNCHANGED <<settings, data, host, menu, uploads, uncaught, pathNotice, resolved>>

(***************************************************************************)
(* The continuation of a call, and the events of its request.              *)
(***************************************************************************)
\* readBinary resolves.
ReadDone(u) ==
  /\ uploads[u].pc = "reading"
  /\ uploads' = [uploads EXCEPT ![u] = AfterRead(uploads[u])]
  /\ UNCHANGED <<settings, data, host, menu, modal, uncaught, pathNotice, resolved>>

\* readBinary rejects: so does the promise of the call, which nothing catches.
ReadFail(u) ==
  /\ uploads[u].pc = "reading"
  /\ uploads' = [uploads EXCEPT ![u].pc = "rejected"]
  /\ uncaught' = uncaught \cup {"sendToImgCast"}
  /\ UNCHANGED <<settings, data, host, menu, modal, pathNotice, resolved>>

\* The server answers.
Response(u, statusCode) ==
  /\ uploads[u].pc = "sent"
  /\ uploads' = [uploads EXCEPT ![u] = OnResponse(uploads[u], statusCode)]
  /\ UNCHANGED <<settings, data, host, menu, modal, uncaught, pathNotice, resolved>>

\* The request emits 'error', once: the connection fails before a response, or
\* the socket fails, before or after one.
RequestError(u, message) ==
  /\ uploads[u].err = ""
  /\ IF uploads[u].pc = "sent" THEN message \in ConnectErrors \cup SocketErrors
     ELSE uploads[u].pc = "responded" /\ message \in SocketErrors
  /\ uploads' = [uploads EXCEPT ![u] = OnError(uploads[u], message)]
  /\ UNCHANGED <<settings, data, host, menu, modal, uncaught, pathNotice, resolved>>

(***************************************************************************)
(* The settings form.                                                      *)
(***************************************************************************)
\* A call suspended on readBinary sees the new settings when it resumes.
Seen(up, new) ==
  IF up.pc = "reading" /\ new.baseURL = up.baseURL
    THEN [up EXCEPT !.configured = up.configured \cup {new.apiKey}]
    ELSE up

\* The assignment to this.settings, and saveSettings.
Saved(new) ==
  /\ settings' = new
  /\ data' = new
  /\ uploads' = [u \in 1..MaxUploads |-> Seen(uploads[u], new)]
  /\ UNCHANGED <<host, menu, modal, uncaught, pathNotice, resolved>>

\* onChange of the "Base URL" field.
ChangeBaseURL(value) ==
  /\ value # settings.baseURL
  /\ Saved([settings EXCEPT !.baseURL = value])

\* onChange of the "API Key" field.
ChangeApiKey(value) ==
  /\ value # settings.apiKey
  /\ Saved([settings EXCEPT !.apiKey = value])

(***************************************************************************)
(* The specifications.                                                     *)
(***************************************************************************)
\* After onload: the settings are loaded, nothing is on screen.
Loaded ==
  /\ data \in PersistedData
  /\ settings = loadSettings(data)
  /\ menu = NoMenu
  /\ modal = ClosedModal
  /\ uploads = [u \in 1..MaxUploads |-> Idle]
  /\ uncaught = {}
  /\ pathNotice = FALSE
  /\ resolved = NotResolved

\* The host of the plugin's run.
InPluginHost ==
  /\ adapterIsFS \in BOOLEAN
  /\ basePath = P_vault
  /\ cwd = Slash
  /\ vault = PluginVault

\* What the explorer shows: the files of the vault and a folder.
ExplorerItems == vault \cup {S_sub}

\* The steps of a call after its await, and the events of its request.
Continue ==
  \/ \E u \in 1..MaxUploads : ReadDone(u)
  \/ \E u \in 1..MaxUploads : ReadFail(u)
  \/ \E u \in 1..MaxUploads, statusCode \in StatusCodes : Response(u, statusCode)
  \/ \E u \in 1..MaxUploads, message \in ConnectErrors \cup SocketErrors : RequestError(u, message)

(***************************************************************************)
(* The entry points: the three ways an upload starts, with the settings    *)
(* that were loaded.                                                       *)
(***************************************************************************)
InitEntry == Loaded /\ InPluginHost

NextEntry ==
  \/ \E localName \in {"img", "div"}, href \in DisplayedImages : ContextMenu(localName, href)
  \/ \E file \in ExplorerItems : FileMenu(file)
  \/ MenuClick
  \/ MenuClose
  \/ Command
  \/ \E item \in vault : ChooseItem(item)
  \/ CloseModal
  \/ Continue

SpecEntry == InitEntry /\ [][NextEntry]_vars

(***************************************************************************)
(* The upload client: calls of sendToImgCast on files of the vault, while  *)
(* the user edits the settings.                                            *)
(***************************************************************************)
\* A handler calls this.sendToImgCast(file).
Invoke(file) ==
  /\ Send(file, "handler")
  /\ UNCHANGED <<settings, data, host, menu, modal, pathNotice, resolved>>

InitUpload == Loaded /\ InPluginHost

NextUpload ==
  \/ \E file \in vault : Invoke(file)
  \/ Continue
  \/ \E value \in BaseURLs : ChangeBaseURL(value)
  \/ \E value \in ApiKeys : ChangeApiKey(value)

SpecUpload == InitUpload /\ [][NextUpload]_vars

(***************************************************************************)
(* The path resolver on its own, over every displayed path of the bound.   *)
(***************************************************************************)
\* getTFileFormHref(href) is called.
Resolve(href) ==
  /\ ~resolved.done
  /\ resolved' = Resolution(href)
  /\ pathNotice' = (pathNotice \/ resolved'.notice)
  /\ uncaught' = IF resolved'.threw # "none" THEN uncaught \cup {"contextmenu"} ELSE uncaught
  /\ UNCHANGED <<settings, data, host, menu, modal, uploads>>

InitResolve ==
  /\ Loaded
  /\ data = NoData
  /\ adapterIsFS \in BOOLEAN
  /\ basePath \in BasePaths
  /\ cwd \in WorkingDirs
  /\ vault = ResolverVault

NextResolve == \E href \in Hrefs : Resolve(href)

SpecResolve == InitResolve /\ [][NextResolve]_vars


(***************************************************************************)
(* The claims.                                                             *)
(***************************************************************************)
\* Whether a notice is among those a call has shown.
Shown(up, notice) == \E i \in 1..Len(up.notices) : up.notices[i] = notice

\* C1: a call that received a response has shown the success notice if and only
\* if the status is 200, and, for any other status, has shown the error notice
\* that carries that status.
C1_ResponseNotice ==
  \A u \in 1..MaxUploads :
    uploads[u].statusCode # 0 =>
      /\ Shown(uploads[u], SuccessNotice) <=> uploads[u].statusCode = 200
      /\ uploads[u].statusCode # 200 => Shown(uploads[u], ErrorNotice(uploads[u].statusCode))

\* A server answered 201 and the call showed the error notice of 201, and no other.
C1_Witness ==
  \E u \in 1..MaxUploads :
    /\ uploads[u].statusCode = 201
    /\ uploads[u].notices = <<"ImgCast: Error - 201">>

\* C2: a call made while the base URL is empty returns at once with the
\* missing-configuration notice: it has read no file and issued no request.
C2_EmptyBaseURL ==
  \A u \in 1..MaxUploads :
    (uploads[u].pc # "idle" /\ uploads[u].baseURL = EmptyString) =>
      /\ uploads[u].pc = "returned"
      /\ uploads[u].reads = 0
      /\ uploads[u].reqs = 0
      /\ uploads[u].request = NoRequest
      /\ uploads[u].notices = <<MissingNotice>>

\* A call was made with an empty base URL and the second API key.
C2_Witness ==
  \E u \in 1..MaxUploads :
    /\ uploads[u].pc = "returned"
    /\ uploads[u].baseURL = EmptyString
    /\ uploads[u].configured = {S_key2}

\* C3: a call that has ended (by the early return, by a rejection, by a
\* response or by a transport failure) has shown exactly one notice.
C3_OneNotice ==
  \A u \in 1..MaxUploads :
    uploads[u].pc \in {"returned", "rejected", "responded", "failed"} =>
      Len(uploads[u].notices) = 1

\* C4: no handler ends by an uncaught exception or an unhandled rejection.
C4_NothingEscapes == uncaught = {}

\* C5: a call issues at most one request, exactly one once its request got a
\* response or failed, and a transport failure is shown with its message.
C5_SinglePost ==
  \A u \in 1..MaxUploads :
    /\ uploads[u].reqs <= 1
    /\ uploads[u].pc \in {"sent", "responded", "failed"} => uploads[u].reqs = 1
    /\ uploads[u].err # "" => Shown(uploads[u], FailedNotice(uploads[u].err))

\* A connection was refused: one request, and the notice carries the message.
C5_Witness ==
  \E u \in 1..MaxUploads :
    /\ uploads[u].pc = "failed"
    /\ uploads[u].reqs = 1
    /\ uploads[u].notices = <<"ImgCast: Request failed - connect ECONNREFUSED 127.0.0.1:8080">>

\* The components of a path, "." and ".." resolved.
PathSegments(p) == NormalizeSegments(SplitSlash(p), << >>)

\* The decoded, normalized path a displayed URL stands for.
DisplayedPath(href) == Slash \o JoinSlash(PathSegments(decodeURI(URL(href).pathname)))

\* A displayed URL that parses and whose path decodes.
WellFormed(href) == URL(href).ok /\ ~MalformedURI(URL(href).pathname)

\* Directory base is p or an ancestor of p, component by component.
Within(p, base) ==
  /\ Len(PathSegments(base)) <= Len(PathSegments(p))
  /\ SubSeq(PathSegments(p), 1, Len(PathSegments(base))) = PathSegments(base)

\* Path p lies under directory base and is not base itself.
StrictlyUnder(p, base) == Within(p, base) /\ Len(PathSegments(base)) < Len(PathSegments(p))

\* Path p without base and the separator that follows it.
StorageRelative(p, base) ==
  JoinSlash(SubSeq(PathSegments(p), Len(PathSegments(base)) + 1, Len(PathSegments(p))))

\* C6: for a well-formed URL whose decoded, normalized path lies strictly under
\* the base path of a filesystem-backed vault, getTFileFormHref looks up that
\* path relative to the base path, whatever the base path and the working
\* directory are.
C6_RelativePath ==
  (/\ resolved.done
   /\ adapterIsFS
   /\ WellFormed(resolved.href)
   /\ StrictlyUnder(DisplayedPath(resolved.href), basePath)) =>
     resolved.lookup = StorageRelative(DisplayedPath(resolved.href), basePath)

\* The two paths of the sibling-directory case.
P_vault2_img == Slash \o S_vault2 \o Slash \o S_img_png
P_vault_sub_img == Slash \o S_vault \o Slash \o S_sub \o Slash \o S_img_png

\* C7: with the base path /vault (and the root as working directory),
\* /vault2/img.png is not taken for a path under the base, and no file is
\* returned for it, while /vault/sub/img.png is looked up as sub/img.png.
C7_Sibling ==
  (/\ resolved.done
   /\ adapterIsFS
   /\ basePath = P_vault
   /\ cwd = Slash
   /\ WellFormed(resolved.href)) =>
     /\ DisplayedPath(resolved.href) = P_vault2_img =>
          ~resolved.stripped /\ resolved.file = Null
     /\ DisplayedPath(resolved.href) = P_vault_sub_img =>
          resolved.lookup = F_sub_img

\* C8: for a path outside the base path, or a vault that is not
\* filesystem-backed, getTFileFormHref returns no file.
C8_Outside ==
  (/\ resolved.done
   /\ WellFormed(resolved.href)
   /\ ~adapterIsFS \/ ~Within(DisplayedPath(resolved.href), basePath)) =>
     resolved.file = Null

\* C9: without a filesystem-backed vault, the explorer's menu of an
\* image file still holds the "Send to ImgCast" item.
C9_ExplorerOffers ==
  (/\ ~adapterIsFS
   /\ menu.kind = "file-menu"
   /\ menu.on \in vault
   /\ IsImageFile(menu.on)) => menu.item = menu.on

\* C10: the API key of a request was configured, at some moment from the call to
\* the request, together with the base URL the request goes to.
C10_OneConfiguration ==
  \A u \in 1..MaxUploads :
    uploads[u].reqs > 0 => uploads[u].request.apiKey \in uploads[u].configured

=============================================================================
